---- MODULE Spec2Model ----
(***************************************************************************)
(* Model of Course1FinalProject/controller2d.py (class Controller2D).      *)
(*                                                                         *)
(* Number representation (floats of the source become scaled integers):    *)
(*   positions, speeds          integers (metres, metres per second)       *)
(*   lateral error              centimetres                                *)
(*   angles                     milliradians (pi = 3142)                   *)
(*   sin, cos, normalised steer thousandths                                *)
(*   target_acc, throttle, brake hundredths (exact for integer speeds)     *)
(* The only float special value the law can produce, the NaN of 0.0/0 at   *)
(* line 243, is carried as a flag next to the value.                       *)
(***************************************************************************)
EXTENDS Integers, Sequences, FiniteSets, TLC

VARIABLES
    current_x, current_y, current_yaw, current_speed,
    desired_speed, current_frame, current_timestamp,
    start_control_loop,
    set_throttle_v, set_brake_v, set_steer_v,
    waypoints,
    self_vars,      \* self.vars: the persistent variables made by create_var
    ret,            \* how the most recent update_controls call ended
    loc,            \* the inputs and local variables of that call
    cycles          \* number of calls that ran the control law so far

vars == << current_x, current_y, current_yaw, current_speed,
           desired_speed, current_frame, current_timestamp,
           start_control_loop, set_throttle_v, set_brake_v, set_steer_v,
           waypoints, self_vars, ret, loc, cycles >>

----------------------------------------------------------------------------
(* Bounds of the model *)

\* control-law passes explored in one behaviour
MaxCycles == 2

----------------------------------------------------------------------------
(* Program constants *)

PI == 3142
K_p == 20
K_d == 5
K_i == 1
Sentinel == 10000000
LookAhead == 17
MaxSteerRad == 1220

HalfPi == PI \div 2
TwoPi == 2 * PI

----------------------------------------------------------------------------
(* Arithmetic helpers *)

Abs(a) == IF a < 0 THEN -a ELSE a

Sign(a) == IF a > 0 THEN 1 ELSE IF a < 0 THEN -1 ELSE 0

\* a * n / d rounded toward zero, without forming the product a * n
MulDiv(a, n, d) ==
    LET s == Sign(a) * Sign(n)
        aa == Abs(a)
        nn == Abs(n)
    IN  s * ((aa \div d) * nn + ((aa % d) * nn) \div d)

\* np.fmin / np.fmax on two finite numbers
fmin(a, b) == IF a < b THEN a ELSE b
fmax(a, b) == IF a > b THEN a ELSE b

\* dx^2 + dy^2 as three base-10000 digits, most significant first; the
\* square root of lines 45 and 204 is monotone, so distances are compared
\* by their squares.
SumSq(dx, dy) ==
    LET xh == Abs(dx) \div 10000
        xl == Abs(dx) % 10000
        yh == Abs(dy) \div 10000
        yl == Abs(dy) % 10000
        L  == xl * xl + yl * yl
        M  == 2 * (xh * xl + yh * yl) + (L \div 10000)
        H  == xh * xh + yh * yh + (M \div 10000)
    IN  << H, M % 10000, L % 10000 >>

\* float("inf") of line 42
Inf == << >>

\* Sentinel^2 in the digits of SumSq
SentinelSq == << (Sentinel \div 10000) * (Sentinel \div 10000), 0, 0 >>

\* d < m on squared distances, m possibly infinite
DistLess(d, m) ==
    \/ m = Inf
    \/ /\ m # Inf
       /\ \/ d[1] < m[1]
          \/ d[1] = m[1] /\ d[2] < m[2]
          \/ d[1] = m[1] /\ d[2] = m[2] /\ d[3] < m[3]

\* arctan(xm / 1000) in milliradians, 0 <= xm <= 1000
ArcTanUnit(xm) == (xm * (785 + (273 * (1000 - xm)) \div 1000)) \div 1000

\* arctan(n / d) in milliradians, d >= 0 and (n, d) # (0, 0); d = 0 is the
\* infinite quotient
ArcTanFrac(n, d) ==
    IF d = 0 THEN Sign(n) * HalfPi
    ELSE IF Abs(n) <= d
         THEN Sign(n) * ArcTanUnit((Abs(n) * 1000) \div d)
         ELSE Sign(n) * (HalfPi - ArcTanUnit((d * 1000) \div Abs(n)))

\* np.arctan2(dy, dx) in milliradians
arctan2(dy, dx) ==
    IF dx > 0 THEN ArcTanFrac(dy, dx)
    ELSE IF dx < 0
         THEN IF dy >= 0 THEN PI - ArcTanFrac(dy, -dx)
                         ELSE -PI + ArcTanFrac(-dy, -dx)
         ELSE Sign(dy) * HalfPi

\* np.sin(a) in thousandths, -pi <= a <= pi
sin(a) ==
    LET b == Abs(a)
        p == b * (PI - b)
    IN  Sign(a) * ((16 * p) \div ((5 * PI * PI - 4 * p) \div 1000))

\* np.cos(a) in thousandths, -pi <= a <= pi
cos(a) == sin(HalfPi - Abs(a))

----------------------------------------------------------------------------
(* The persistent variable store (cutils.CUtils) *)

NoVars == [n \in {} |-> 0]

create_var(vs, name, default) ==
    IF name \in DOMAIN vs THEN vs
    ELSE [n \in (DOMAIN vs) \cup {name} |-> IF n = name THEN default ELSE vs[n]]

\* attribute assignment self.vars.<name> = value
set_var(vs, name, value) ==
    [n \in (DOMAIN vs) \cup {name} |-> IF n = name THEN value ELSE vs[n]]

----------------------------------------------------------------------------
(* Waypoints: sequences of <<x, y, v>>; the code's index i is element i+1 *)

wp(ws, i) == ws[i + 1]

\* the scan of lines 44-50 and of lines 203-208, from index i on, with
\* the running minimum (dist, idx)
RECURSIVE Scan(_, _, _, _, _, _)
Scan(ws, x, y, i, dist, idx) ==
    IF i >= Len(ws) THEN idx
    ELSE LET d == SumSq(wp(ws, i)[1] - x, wp(ws, i)[2] - y)
         IN  IF DistLess(d, dist) THEN Scan(ws, x, y, i + 1, d, i)
                                  ELSE Scan(ws, x, y, i + 1, dist, idx)

\* min_idx of update_desired_speed
SpeedNearest(ws, x, y) == Scan(ws, x, y, 0, Inf, 0)

\* idx of the lateral controller
LateralNearest(ws, x, y) == Scan(ws, x, y, 0, SentinelSq, Len(ws) - 1)

\* idy of the lateral controller
LookAheadIdx(ws, idx) ==
    IF idx < Len(ws) - (LookAhead + 1) THEN idx + LookAhead ELSE Len(ws) - 1

\* the value update_desired_speed stores; ws is not empty
DesiredSpeed(ws, x, y) ==
    LET min_idx == SpeedNearest(ws, x, y)
    IN  IF min_idx < Len(ws) - 1 THEN wp(ws, min_idx)[3] ELSE ws[Len(ws)][3]

----------------------------------------------------------------------------
(* Longitudinal controller *)

\* a pass whose integral is overwritten by the error instead of accumulated
Longitudinal_no_sum(des, v, e_total, e_previous) ==
    LET error_v == des - v
    IN  [ error_v |-> error_v,
          e_total |-> error_v,
          target_acc |-> K_p * error_v + K_i * error_v
                            + K_d * (error_v - e_previous) ]

\* [error_v, e_total, target_acc] of one pass
Longitudinal(des, v, e_total, e_previous) ==
    LET error_v == des - v
        total   == e_total + error_v
    IN  [ error_v |-> error_v,
          e_total |-> total,
          target_acc |-> K_p * error_v + K_i * total
                            + K_d * (error_v - e_previous) ]

ThrottleOutput(target_acc) == IF target_acc < 0 THEN 0 ELSE target_acc

\* a brake demand set whatever the sign of target_acc
BrakeOutput_both(target_acc) == Abs(target_acc)

BrakeOutput(target_acc) == IF target_acc < 0 THEN Abs(target_acc) ELSE 0

----------------------------------------------------------------------------
(* Lateral controller *)

\* one correction by 2 pi, as an if / elif chain
NormalizeTheta(t) ==
    IF t > PI THEN t - TwoPi
    ELSE IF t < -PI THEN t + TwoPi
    ELSE t

\* one correction by 2 pi, as two successive ifs
NormalizeSteer(s) ==
    LET s1 == IF s > PI THEN s - TwoPi ELSE s
    IN  IF s1 < -PI THEN s1 + TwoPi ELSE s1

ClampSteerRad(s) ==
    LET m == IF s < MaxSteerRad THEN s ELSE MaxSteerRad
    IN  IF m > -MaxSteerRad THEN m ELSE -MaxSteerRad

CrosstrackSign(theta_fai, laterr) ==
    IF theta_fai > 0 THEN Abs(laterr) ELSE -Abs(laterr)

Lateral(ws, x, y, yaw, v) ==
    LET idx   == LateralNearest(ws, x, y)
        idy   == LookAheadIdx(ws, idx)
        alpha == arctan2(wp(ws, idy)[2] - wp(ws, idx)[2],
                         wp(ws, idy)[1] - wp(ws, idx)[1])
        laterr == MulDiv(x - wp(ws, idx)[1], sin(alpha), 10)
                    + MulDiv(y - wp(ws, idx)[2], cos(alpha), 10)
        yaw_path == alpha
        theta_fai == NormalizeTheta(yaw_path - yaw)
        crosstrack_error == CrosstrackSign(theta_fai, laterr)
        \* 5 * crosstrack_error / v is 0.0 / 0 when both are zero, and an
        \* infinity of the sign of crosstrack_error when only v is zero
        nan == (v = 0 /\ crosstrack_error = 0)
        yaw_diff_crosstrack ==
            IF nan THEN 0
            ELSE (IF v < 0 THEN -1 ELSE 1)
                    * ArcTanFrac(crosstrack_error, 20 * Abs(v))
        raw == yaw_diff_crosstrack + theta_fai
        \* every comparison with NaN is false: lines 247-250 leave it,
        \* min(1.22, nan) is 1.22
        normalized == IF nan THEN 0 ELSE NormalizeSteer(raw)
        steer_expect == IF nan THEN MaxSteerRad ELSE ClampSteerRad(normalized)
    IN  [ idx |-> idx, idy |-> idy, alpha |-> alpha, laterr |-> laterr,
          theta_raw |-> yaw_path - yaw,
          theta_fai |-> theta_fai, nan |-> nan,
          normalized |-> normalized, steer_expect |-> steer_expect ]

----------------------------------------------------------------------------
(* Output setters *)

\* a setter that stores its argument unclamped
set_throttle_unclamped(input_throttle) == input_throttle

set_throttle(input_throttle) == fmax(fmin(input_throttle, 100), 0)

conv_rad_to_steer(rad) == MulDiv(rad, 18000, 7 * PI)

set_steer(input_steer_in_rad) ==
    fmax(fmin(conv_rad_to_steer(input_steer_in_rad), 1000), -1000)

set_brake(input_brake) == fmax(fmin(input_brake, 100), 0)

get_commands == << set_throttle_v, set_steer_v, set_brake_v >>

----------------------------------------------------------------------------
(* State after construction *)

\* loc before any call; the numeric fields of a call that did not reach
\* the control law keep these values
NoLocals ==
    [ ran |-> FALSE, x |-> 0, y |-> 0, yaw |-> 0, v |-> 0, frame |-> 0,
      waypoints |-> << >>, min_idx |-> 0, idx |-> 0, alpha |-> 0,
      laterr |-> 0, theta_raw |-> 0, theta_fai |-> 0, nan |-> FALSE,
      normalized |-> 0, error_v |-> 0, target_acc |-> 0 ]

\* lines 85-88 and the receiver's fields as the call finds them
Entry ==
    [ NoLocals EXCEPT !.x = current_x, !.y = current_y, !.yaw = current_yaw,
                      !.v = current_speed, !.frame = current_frame,
                      !.waypoints = waypoints ]

InitialWaypoints ==
    << <<0, 0, 5>>, <<10, 0, 5>>, <<20, 0, 5>> >>

Init ==
    /\ current_x = 0
    /\ current_y = 0
    /\ current_yaw = 0
    /\ current_speed = 0
    /\ desired_speed = 0
    /\ current_frame = 0
    /\ current_timestamp = 0
    /\ start_control_loop = FALSE
    /\ set_throttle_v = 0
    /\ set_brake_v = 0
    /\ set_steer_v = 0
    /\ waypoints = InitialWaypoints
    /\ self_vars = NoVars
    /\ ret = "none"
    /\ loc = NoLocals
    /\ cycles = 0

----------------------------------------------------------------------------
(* Operations *)

\* a flag that follows the frame index instead of latching
Latch_follows_frame(flag, frame) == frame # 0

\* lines 37-38: the flag is set on a non-zero frame and never cleared
Latch(flag, frame) == flag \/ frame # 0

update_values(x, y, yaw, speed, timestamp, frame) ==
    /\ current_x' = x
    /\ current_y' = y
    /\ current_yaw' = yaw
    /\ current_speed' = speed
    /\ current_timestamp' = timestamp
    /\ current_frame' = frame
    /\ start_control_loop' = Latch(start_control_loop, frame)
    /\ UNCHANGED << desired_speed, set_throttle_v, set_brake_v, set_steer_v,
                    waypoints, self_vars, ret, loc, cycles >>

update_waypoints(new_waypoints) ==
    /\ waypoints' = new_waypoints
    /\ UNCHANGED << current_x, current_y, current_yaw, current_speed,
                    desired_speed, current_frame, current_timestamp,
                    start_control_loop, set_throttle_v, set_brake_v,
                    set_steer_v, self_vars, ret, loc, cycles >>

\* the value of a persistent variable after its create_var(name, 0.0)
Persisted(name) == create_var(self_vars, name, 0)[name]

\* a store of the old speed that is skipped
StoreOld_skipped(vs, v) == vs

\* line 284, reached by every call that got past update_desired_speed
StoreOld(vs, v) == set_var(vs, "v_previous", v)

\* the four create_var calls of lines 117-120
Created ==
    create_var(create_var(create_var(create_var(self_vars,
        "v_previous", 0), "e_previous", 0), "e_total", 0),
        "steer_output_p", 0)

\* update_desired_speed raises IndexError at line 54 on an empty list:
\* nothing has been assigned yet
update_controls_IndexError ==
    /\ Len(waypoints) = 0
    /\ ret' = "IndexError"
    /\ loc' = Entry
    /\ UNCHANGED << current_x, current_y, current_yaw, current_speed,
                    desired_speed, current_frame, current_timestamp,
                    start_control_loop, set_throttle_v, set_brake_v,
                    set_steer_v, waypoints, self_vars, cycles >>

\* the control loop is skipped; line 284 stores v, line 285 reads the
\* local s1 that only the skipped block assigns: UnboundLocalError
update_controls_warmup ==
    /\ Len(waypoints) > 0
    /\ ~start_control_loop
    /\ desired_speed' = DesiredSpeed(waypoints, current_x, current_y)
    /\ self_vars' = StoreOld(Created, current_speed)
    /\ ret' = "UnboundLocalError"
    /\ loc' = [Entry EXCEPT
                 !.min_idx = SpeedNearest(waypoints, current_x, current_y)]
    /\ UNCHANGED << current_x, current_y, current_yaw, current_speed,
                    current_frame, current_timestamp, start_control_loop,
                    set_throttle_v, set_brake_v, set_steer_v, waypoints,
                    cycles >>

\* what a call that runs the control law assigns, from the desired speed and
\* the results of the two controllers
ActiveAssign(des, lon, lat) ==
    /\ cycles' = cycles + 1
    /\ desired_speed' = des
    /\ set_throttle_v' = set_throttle(ThrottleOutput(lon.target_acc))
    /\ set_steer_v' = set_steer(lat.steer_expect)
    /\ set_brake_v' = set_brake(BrakeOutput(lon.target_acc))
    /\ self_vars' =
         set_var(StoreOld(set_var(set_var(Created,
             "e_total", lon.e_total),
             "e_previous", lon.error_v),
             current_speed),
             "steer_output_p", lat.steer_expect)
    /\ ret' = "ok"
    /\ loc' = [ Entry EXCEPT
                !.ran = TRUE,
                !.min_idx = SpeedNearest(waypoints, current_x, current_y),
                !.idx = lat.idx,
                !.alpha = lat.alpha,
                !.laterr = lat.laterr,
                !.theta_raw = lat.theta_raw,
                !.theta_fai = lat.theta_fai,
                !.nan = lat.nan,
                !.normalized = lat.normalized,
                !.error_v = lon.error_v,
                !.target_acc = lon.target_acc ]

update_controls_active ==
    /\ Len(waypoints) > 0
    /\ start_control_loop
    /\ cycles < MaxCycles
    /\ ActiveAssign(DesiredSpeed(waypoints, current_x, current_y),
                    Longitudinal(DesiredSpeed(waypoints, current_x, current_y),
                                 current_speed,
                                 Persisted("e_total"), Persisted("e_previous")),
                    Lateral(waypoints, current_x, current_y, current_yaw,
                            current_speed))
    /\ UNCHANGED << current_x, current_y, current_yaw, current_speed,
                    current_frame, current_timestamp, start_control_loop,
                    waypoints >>

update_controls ==
    \/ update_controls_IndexError
    \/ update_controls_warmup
    \/ update_controls_active

----------------------------------------------------------------------------
(* Inputs of the callers *)

Frames == {0, 1}
Stamps == {0, 1}

EmptyPath == << >>
SinglePath == << <<0, 0, 5>> >>
FastPath == << <<0, 0, 1000>>, <<10, 0, 1000>> >>

Positions == { <<0, 0>>, <<5, 2>> }
Yaws == {0}
Speeds == {0, 5, 1000}
Paths == {EmptyPath, SinglePath, InitialWaypoints, FastPath}

Next ==
    \/ \E p \in Positions, yaw \in Yaws, speed \in Speeds,
          timestamp \in Stamps, frame \in Frames :
          update_values(p[1], p[2], yaw, speed, timestamp, frame)
    \/ \E new_waypoints \in Paths : update_waypoints(new_waypoints)
    \/ update_controls_IndexError
    \/ update_controls_warmup
    \/ update_controls_active

Spec == Init /\ [][Next]_vars

\* inputs that exercise the two nearest-waypoint scans: ties, and a position
\* farther than the initial dist of line 198 from every waypoint
BentPath == << <<0, 0, 2>>, <<10, 0, 4>>, <<10, 10, 6>> >>
LongPath == [i \in 1..20 |-> << i - 1, 0, 3 >>]

NearestPositions == { <<0, 0>>, <<5, 5>>, <<12, 1>>, <<-20000000, 0>> }
NearestSpeeds == {5}
NearestPaths == {EmptyPath, SinglePath, BentPath, LongPath}

NextNearest ==
    \/ \E p \in NearestPositions, yaw \in Yaws, speed \in NearestSpeeds,
          timestamp \in {0}, frame \in Frames :
          update_values(p[1], p[2], yaw, speed, timestamp, frame)
    \/ \E new_waypoints \in NearestPaths : update_waypoints(new_waypoints)
    \/ update_controls_IndexError
    \/ update_controls_warmup
    \/ update_controls_active

SpecNearest == Init /\ [][NextNearest]_vars

\* inputs that exercise the lateral law: both sides of the path, yaw on and
\* beyond the ends of [-pi, pi], speed zero
VerticalPath == << <<5, -10, 5>>, <<5, 0, 5>>, <<5, 10, 5>> >>

SteerPositions == { <<5, 0>>, <<5, 2>>, <<5, -2>> }
SteerYaws == {0, PI, 10000}
SteerSpeeds == {0, 5}
SteerPaths == {EmptyPath, InitialWaypoints, VerticalPath}

NextSteer ==
    \/ \E p \in SteerPositions, yaw \in SteerYaws, speed \in SteerSpeeds,
          timestamp \in {0}, frame \in Frames :
          update_values(p[1], p[2], yaw, speed, timestamp, frame)
    \/ \E new_waypoints \in SteerPaths : update_waypoints(new_waypoints)
    \/ update_controls_IndexError
    \/ update_controls_warmup
    \/ update_controls_active

SpecSteer == Init /\ [][NextSteer]_vars

TypeOK ==
    /\ start_control_loop \in BOOLEAN
    /\ ret \in {"none", "ok", "IndexError", "UnboundLocalError"}
    /\ cycles \in 0..MaxCycles

----------------------------------------------------------------------------
(* Properties *)

PersistNames == {"v_previous", "e_previous", "e_total", "steer_output_p"}

\* a step in which update_controls wrote something
ControlsStep ==
    << ret, loc, cycles, self_vars, desired_speed,
       set_throttle_v, set_steer_v, set_brake_v >>'
      # << ret, loc, cycles, self_vars, desired_speed,
           set_throttle_v, set_steer_v, set_brake_v >>

\* C1: whatever calls were made, with whatever speeds and positions, the
\* command get_commands returns has throttle and brake in [0, 1] and steer
\* in [-1, 1] (hundredths and thousandths here).
C1_CommandWithinBounds ==
    /\ 0 <= get_commands[1] /\ get_commands[1] <= 100
    /\ -1000 <= get_commands[2] /\ get_commands[2] <= 1000
    /\ 0 <= get_commands[3] /\ get_commands[3] <= 100

\* a call at speed 1000 whose brake demand exceeded 1 and was saturated
C1_Witness ==
    /\ ret = "ok"
    /\ loc.v = 1000
    /\ loc.target_acc < -100
    /\ set_brake_v = 100

\* C2: while the controller is in warm-up, a control cycle on a non-empty
\* path completes and get_commands returns the zero command.
C2_WarmupCycleReturnsZero ==
    (~start_control_loop /\ ret # "none" /\ Len(loc.waypoints) > 0)
        => (ret = "ok" /\ get_commands = << 0, 0, 0 >>)

\* C3: once start_control_loop is set it stays set, and every later
\* update_controls call on a non-empty path runs the control law, whatever
\* the frame index then is.
C3_LatchOneWay ==
    [][ start_control_loop =>
          /\ start_control_loop'
          /\ (ControlsStep /\ Len(waypoints) > 0) =>
                /\ ret' = "ok"
                /\ loc'.ran
                /\ loc'.frame = current_frame
                /\ cycles' = cycles + 1 ]_vars

\* the law ran in a call made while the frame index was zero
C3_Witness ==
    /\ start_control_loop
    /\ ret = "ok"
    /\ loc.ran
    /\ loc.frame = 0
    /\ current_frame = 0

\* C4: throttle and brake of the command are never both non-zero.
C4_ThrottleBrakeExclusive ==
    /\ set_throttle_v > 0 => set_brake_v = 0
    /\ set_brake_v > 0 => set_throttle_v = 0

\* a second pass that brakes
C4_Witness ==
    /\ ret = "ok"
    /\ cycles = 2
    /\ loc.target_acc < 0
    /\ set_brake_v > 0
    /\ set_throttle_v = 0

\* C9 as stated: a warm-up cycle leaves all four persistent variables at
\* zero, the previous speed included.
C9_WarmupKeepsAllState ==
    ret = "UnboundLocalError" => \A n \in PersistNames : Persisted(n) = 0

\* C9 as amended: a warm-up cycle on a non-empty path leaves e_previous,
\* e_total and steer_output_p at zero and stores the current speed in
\* v_previous.
C9_WarmupStoresSpeedOnly ==
    ret = "UnboundLocalError" =>
        /\ DOMAIN self_vars = PersistNames
        /\ self_vars["v_previous"] = loc.v
        /\ self_vars["e_previous"] = 0
        /\ self_vars["e_total"] = 0
        /\ self_vars["steer_output_p"] = 0

\* a warm-up cycle at speed 5
C9_Witness ==
    /\ ret = "UnboundLocalError"
    /\ ~start_control_loop
    /\ loc.v = 5
    /\ self_vars["v_previous"] = 5

\* C10: a call that runs the law applies the PID step once to the
\* persisted state, with gains 0.2, 0.01, 0.05 (in hundredths), and maps
\* the result to throttle or brake; no other step changes the integral or
\* the previous error; the first pass on the path (0,0,5),(10,0,5),(20,0,5)
\* at x = 0, y = 0, speed 0 gives integral 5, target_acc 1.30, throttle 1,
\* brake 0.
C10_PidStep ==
    [][ LET error == desired_speed' - current_speed
            integral == Persisted("e_total") + error
            acc == 20 * error + integral + 5 * (error - Persisted("e_previous"))
        IN  /\ cycles' = cycles + 1 =>
                /\ Persisted("e_total")' = integral
                /\ Persisted("e_previous")' = error
                /\ loc'.target_acc = acc
                /\ acc >= 0 =>
                     /\ set_throttle_v' = (IF acc > 100 THEN 100 ELSE acc)
                     /\ set_brake_v' = 0
                /\ acc < 0 =>
                     /\ set_brake_v' = (IF -acc > 100 THEN 100 ELSE -acc)
                     /\ set_throttle_v' = 0
            /\ cycles' = cycles =>
                /\ Persisted("e_total")' = Persisted("e_total")
                /\ Persisted("e_previous")' = Persisted("e_previous")
            /\ ( /\ cycles = 0 /\ cycles' = 1
                 /\ waypoints = << <<0, 0, 5>>, <<10, 0, 5>>, <<20, 0, 5>> >>
                 /\ current_x = 0 /\ current_y = 0 /\ current_speed = 0 ) =>
                /\ desired_speed' = 5
                /\ Persisted("e_total")' = 5
                /\ loc'.target_acc = 130
                /\ set_throttle_v' = 100
                /\ set_brake_v' = 0 ]_vars

\* a second pass, after update_waypoints replaced the path, whose integral
\* is the sum of both errors
C10_Witness ==
    /\ ret = "ok"
    /\ cycles = 2
    /\ loc.waypoints = FastPath
    /\ loc.error_v = 1000
    /\ self_vars["e_total"] = 1005
    /\ self_vars["e_previous"] = 1000

\* C5: in a call that runs the law on a non-empty path, the scan of
\* update_desired_speed and the scan of the lateral controller return the
\* same index, the smallest one at minimum distance from the position.
C5_SearchesAgree ==
    loc.ran =>
        /\ loc.idx = loc.min_idx
        /\ \A i \in 0..(Len(loc.waypoints) - 1) :
              LET d == SumSq(wp(loc.waypoints, i)[1] - loc.x,
                             wp(loc.waypoints, i)[2] - loc.y)
                  m == SumSq(wp(loc.waypoints, loc.idx)[1] - loc.x,
                             wp(loc.waypoints, loc.idx)[2] - loc.y)
              IN  /\ ~DistLess(d, m)
                  /\ i < loc.idx => DistLess(m, d)

\* C6: in a pass with heading error 0, speed > 0 and a non-zero lateral
\* offset from a path heading 0 rad, the steer command is within [-1, 1],
\* is not zero, and has the sign opposite to the one the law gives at the
\* position mirrored across the path line.
C6_MirroredSteerOpposes ==
    ( /\ ret = "ok"
      /\ loc.alpha = 0 /\ loc.theta_raw = 0
      /\ loc.v > 0
      /\ loc.laterr # 0 ) =>
        LET w == wp(loc.waypoints, loc.idx)
            mirrored == Lateral(loc.waypoints, loc.x, 2 * w[2] - loc.y,
                                loc.yaw, loc.v)
        IN  /\ -1000 <= set_steer_v /\ set_steer_v <= 1000
            /\ set_steer_v # 0
            /\ Sign(set_steer_v) = -Sign(set_steer(mirrored.steer_expect))

\* C7: in every pass of the lateral law that divides by a non-zero speed or
\* a non-zero cross-track error, the normalized heading error and the
\* normalized steer_expect before its clamp lie in (-pi, pi].
C7_NormalizedInHalfOpenInterval ==
    (loc.ran /\ ~loc.nan) =>
        /\ -PI < loc.theta_fai /\ loc.theta_fai <= PI
        /\ -PI < loc.normalized /\ loc.normalized <= PI

\* C8: a call made with an empty or single-element path ends in an error
\* and sets no command.
C8_ShortPathRejected ==
    (ret # "none" /\ Len(loc.waypoints) <= 1) => (ret # "ok" /\ ~loc.ran)

====
